---- MODULE Spec2Model ----
(***************************************************************************)
(* Document ingestion pipeline of the document question-answering system:  *)
(* the classifier and its category table (DynamoDB), the vector store      *)
(* (ChromaDB) and IngestionPipeline.ingest_document, run by NumDocs        *)
(* concurrent tasks as ingest_files dispatches them (Spec); one            *)
(* _classify_with_llm evaluation (SpecClassify); one query through the     *)
(* Router, Retrieval and Synthesis agents (SpecQuery); one reset_all_data  *)
(* call (SpecReset); one _split_text call (SpecSplit); one                 *)
(* _get_or_create_collection call (SpecProbe); concurrent                  *)
(* generate_embeddings_async calls on one provider (SpecEmbed).            *)
(***************************************************************************)
EXTENDS Integers, Sequences, FiniteSets, TLC

\* ---------------------------------------------------------------- bounds
NumDocs == 2
MaxChunks == 2
MaxRespLen == 5

Tasks == 1..NumDocs

VARIABLES
    \* ---- one ingest_document call per task
    pc,         \* position of the call
    cls,        \* its classification dict
    exc,        \* the exception in flight, "" when none
    outcome,    \* how the call ended
    nchunks,    \* len(chunks)
    emb,        \* embeddings, one per chunk: "vec" or "zero"
    fbIdx,      \* index of the record the fallback loop is at
    succ,       \* success_count of the fallback loop
    bulk,       \* history: "none", "ok" or "failed" bulk insert
    attempts,   \* history: records the fallback loop attempted, in order
    stored,     \* history: number of this call's vectors the store accepted
    incremented,\* history: category id whose count this call's ADD raised
    \* ---- shared
    env,        \* this run's environment: fault classes and calls started (never changes)
    lastPut,    \* history: how the conditional put of the step just taken ended
    table,      \* DynamoDB table: category_id -> item
    collection, \* ChromaDBStore.collection (name of the collection object)
    current_collection_name,
    colls,      \* ChromaDB server: collection name -> existence and records
    stats,      \* IngestionPipeline._stats
    \* ---- one _classify_with_llm evaluation (SpecClassify)
    resp,       \* the model outcome
    cpc,        \* "call" before, "done" after
    cout,       \* what _classify_with_llm gave
    \* ---- one query through RouterAgent, RetrievalAgent, SynthesisAgent (SpecQuery)
    query,      \* the query, a sequence of characters
    qpc,        \* the agent to run next
    routing_map,\* RouterAgent.invoke: the map read by get_routing_map
    category,   \* RouterAgent.invoke: what LLMClassifier.classify returned
    routerOut,  \* the Router's decision
    raw_results,\* RetrievalAgent.invoke: what ChromaVectorClient.search returned
    retrievalOut,\* the Retriever's decision
    envelope,   \* the Synthesizer's answer
    calls,      \* history: the external calls made, in order
    category_store, \* the items of the category table the Router scans
    \* ---- one reset_all_data call (SpecReset)
    rpc,        \* position of the call
    confirm,    \* its argument
    results,    \* its results dict
    rcalls,     \* history: the store calls made, in order
    failures,   \* history: the subsystems one of whose deletions failed
    \* ---- one _split_text call (SpecSplit)
    split_text, \* the text, a sequence of characters
    chunk_size,
    chunk_overlap,
    split_start,\* start, the window's start
    chunks,     \* the list built so far
    spc,        \* "loop" while in the while loop, "done" after the return
    passes,     \* history: parity of the number of passes through the loop
    \* ---- one _get_or_create_collection call (SpecProbe)
    gpc,        \* "call" before, "returned" or "raised" after
    probe_env,  \* how each store call of this run ends
    probe_coll, \* the collection of that name on the ChromaDB server
    probe_before, \* history: that collection when the call began
    \* ---- generate_embeddings_async calls on one provider (SpecEmbed)
    batch_size, \* BedrockEmbedding.batch_size
    max_workers,\* max_workers of BedrockEmbedding.executor
    pool,       \* threads of the event loop's default executor
    epc,        \* position of each call
    ntexts,     \* len(texts) of each call; its texts are 1..ntexts
    failing,    \* the texts of each call whose invoke_model raises
    base,       \* i of "for i in range(0, len(texts), batch_size)"
    tasks,      \* the to_thread tasks of the batch being gathered
    finished,   \* history: the batch's tasks in the order they finished
    all_embeddings, \* the list built so far, and returned
    vectors_data    \* ingest_document: the records zipped from the result

pvars == <<env, pc, cls, exc, outcome, nchunks, emb, fbIdx, succ, bulk, attempts,
           stored, incremented, lastPut, table, collection,
           current_collection_name, colls, stats>>
cvars == <<resp, cpc, cout>>
qvars == <<query, qpc, routing_map, category, routerOut, raw_results, retrievalOut,
           envelope, calls, category_store>>
rvars == <<rpc, confirm, results, rcalls, failures>>
svars == <<split_text, chunk_size, chunk_overlap, split_start, chunks, spc, passes>>
gvars == <<gpc, probe_env, probe_coll, probe_before>>
evars == <<batch_size, max_workers, pool, epc, ntexts, failing, base, tasks,
           finished, all_embeddings, vectors_data>>
ovars == <<cvars, qvars, rvars, svars, gvars, evars>>
vars == <<pvars, ovars>>

\* ------------------------------------------------------------ classifier
NoItem == [none |-> TRUE]

RequiredFieldsParse == {"category_id", "vector_collection_name", "description"}
RequiredFieldsLLM == {"category_id", "vector_collection_name", "description"}
PairTokens == {"category_id", "vector_collection_name", "description", "keywords"}
Alphabet == PairTokens \cup {"{", "}", "x"}

\* What the model may put behind the keys of its answer.
SomeValues(cid, coll, d, kw) ==
    [category_id |-> cid, vector_collection_name |-> coll,
     description |-> d, keywords |-> kw]
ValuesA == SomeValues("catA", "catA", "d1", <<"k1">>)
ValuesB == SomeValues("catA", "catB", "d2", <<"k2">>)
LLMValues == {ValuesA, ValuesB}

GetDefaultClassification ==
    [category_id |-> "general_documents",
     vector_collection_name |-> "general_documents",
     description |-> "General uncategorized documents",
     keywords |-> <<"general">>]

Ret(v) == [raised |-> FALSE, value |-> v]
Raised == [raised |-> TRUE, value |-> NoItem]

\* str.find / str.rfind, 0-based, -1 when absent
Find(s, ch) ==
    IF \E i \in 1..Len(s) : s[i] = ch
    THEN (CHOOSE i \in 1..Len(s) : s[i] = ch /\ \A j \in 1..(i - 1) : s[j] # ch) - 1
    ELSE -1
RFind(s, ch) ==
    IF \E i \in 1..Len(s) : s[i] = ch
    THEN (CHOOSE i \in 1..Len(s) : s[i] = ch /\ \A j \in (i + 1)..Len(s) : s[j] # ch) - 1
    ELSE -1
\* s[a:b]
Slice(s, a, b) == IF a < b THEN SubSeq(s, a + 1, b) ELSE <<>>

\* json.loads of a token string: an object is "{", key/value pairs, "}".
\* A repeated key keeps one value; anything else is a JSONDecodeError.
JsonLoads(js, vals) ==
    IF /\ Len(js) >= 2
       /\ js[1] = "{"
       /\ js[Len(js)] = "}"
       /\ \A i \in 2..(Len(js) - 1) : js[i] \in PairTokens
    THEN Ret([k \in {js[i] : i \in 2..(Len(js) - 1)} |-> vals[k]])
    ELSE Raised

ParseResponse(text, vals) ==
    LET start == Find(text, "{")
        end == RFind(text, "}") + 1
    IN  IF start = -1 \/ end = 0
        THEN GetDefaultClassification
        ELSE LET data == JsonLoads(Slice(text, start, end), vals)
             IN  IF data.raised
                 THEN GetDefaultClassification
                 ELSE IF RequiredFieldsParse \subseteq DOMAIN data.value
                      THEN data.value
                      ELSE GetDefaultClassification

\* invoke_model raising, or any failure to read the body, re-raised
CallBedrock(r) == IF r.raises THEN Raised ELSE Ret(r.text)

ClassifyWithLLM_NoGuard(r) ==
    LET t == CallBedrock(r)
    IN  IF t.raised THEN Raised ELSE Ret(ParseResponse(t.value, r.vals))

ClassifyWithLLM(r) ==
    LET t == CallBedrock(r)
    IN  IF t.raised
        THEN Ret(GetDefaultClassification)
        ELSE LET c == ParseResponse(t.value, r.vals)
             IN  IF RequiredFieldsLLM \subseteq DOMAIN c
                 THEN Ret(c)
                 ELSE Ret(GetDefaultClassification)

\* ---- SpecClassify: _classify_with_llm over every bounded model outcome
RECURSIVE TextsOfLen(_)
TextsOfLen(n) ==
    IF n = 0 THEN {<<>>}
    ELSE {Append(s, a) : s \in TextsOfLen(n - 1), a \in Alphabet}
Texts == UNION {TextsOfLen(n) : n \in 0..MaxRespLen}

Responses ==
    {[raises |-> FALSE, text |-> s, vals |-> v] : s \in Texts, v \in LLMValues}
    \cup {[raises |-> TRUE, text |-> <<>>, vals |-> v] : v \in LLMValues}

\* ------------------------------------------------- category table (store)
CategoryIds == {"catA", "general_documents"}
StoreOutcomes == {"ok", "client_error", "other_error"}

\* the item _create_category builds
NewItem(c) ==
    [category_id |-> c.category_id,
     vector_collection_name |-> c.vector_collection_name,
     description |-> c.description,
     keywords |-> IF "keywords" \in DOMAIN c THEN c.keywords ELSE <<>>,
     document_count |-> 0]

PutItemAlways(tbl, item) ==
    [ok |-> TRUE, table |-> [tbl EXCEPT ![item.category_id] = item]]

\* put_item with ConditionExpression attribute_not_exists(category_id)
PutItemIfAbsent(tbl, item) ==
    IF tbl[item.category_id] = NoItem
    THEN [ok |-> TRUE, table |-> [tbl EXCEPT ![item.category_id] = item]]
    ELSE [ok |-> FALSE, table |-> tbl]

\* update_item ADD document_count :inc, which creates a missing item
UpdateItemAdd(tbl, id) ==
    IF tbl[id] = NoItem
    THEN [tbl EXCEPT ![id] = [category_id |-> id, document_count |-> 1]]
    ELSE [tbl EXCEPT ![id].document_count = @ + 1]

DocumentCount(tbl, id) ==
    IF tbl[id] = NoItem THEN 0 ELSE tbl[id].document_count

\* the dict ingest_document substitutes when classify_document raises
PipelineDefault ==
    [category_id |-> "general_documents",
     description |-> "Automatically classified document",
     vector_collection_name |-> "general_documents",
     is_new |-> FALSE]

WithIsNew(c, b) ==
    [k \in DOMAIN c \cup {"is_new"} |-> IF k = "is_new" THEN b ELSE c[k]]

\* classification overwritten with the stored collection name and description
UseExisting(c, existing) ==
    [k \in DOMAIN c \cup {"is_new"} |->
        IF k = "is_new" THEN FALSE
        ELSE IF k = "vector_collection_name" THEN existing.vector_collection_name
        ELSE IF k = "description" THEN existing.description
        ELSE c[k]]

\* the model outcomes the concurrent specification draws from
PipelineResponses ==
    { [raises |-> TRUE, text |-> <<>>, vals |-> ValuesA],
      [raises |-> FALSE, text |-> <<"x">>, vals |-> ValuesA],
      [raises |-> FALSE, text |-> <<"{", "category_id", "}">>, vals |-> ValuesA],
      [raises |-> FALSE, vals |-> ValuesA,
       text |-> <<"x", "{", "category_id", "vector_collection_name",
                  "description", "keywords", "}", "x">>],
      [raises |-> FALSE, vals |-> ValuesB,
       text |-> <<"{", "category_id", "vector_collection_name",
                  "description", "}">>] }

\* ------------------------------------------------------------ vector store
CollNames == {"documents", "catA", "catB", "general_documents"}
NoColl == [exists |-> FALSE, items |-> {}]
EmptyColl == [exists |-> TRUE, items |-> {}]
\* how the probe insert/delete and create_collection of one call end
CollOutcomes == [probe : BOOLEAN, create : BOOLEAN]

\* _get_or_create_collection with embedding_dimension set (the factory sets it)
GetOrCreateCollection(cs, name, o) ==
    IF cs[name].exists
    THEN IF o.probe
         THEN [raised |-> FALSE, colls |-> cs]
         ELSE IF o.create
              THEN [raised |-> FALSE, colls |-> [cs EXCEPT ![name] = EmptyColl]]
              ELSE [raised |-> TRUE, colls |-> [cs EXCEPT ![name] = NoColl]]
    ELSE IF o.create
         THEN [raised |-> FALSE, colls |-> [cs EXCEPT ![name] = EmptyColl]]
         ELSE [raised |-> TRUE, colls |-> cs]

\* collection.add of a set of records
CollectionAdd(cs, name, recs) ==
    [cs EXCEPT ![name].items = @ \cup recs]

\* -------------------------------------------------------------- pipeline
ExceptionKinds == {"FileNotFoundError", "ValueError", "Exception"}
\* "except Exception" of ingest_document
OuterCatchesOnlyValueError(e) == e = "ValueError"
OuterCatches(e) == e \in ExceptionKinds

NextAfterProcessNoCheck(n) == "embed"
\* "if not chunks: return None"
NextAfterProcess(n) == IF n = 0 THEN "done" ELSE "embed"

\* _embed_text: the vector, or the zero vector when the call fails
EmbedText(ok) == IF ok THEN "vec" ELSE "zero"

NextIndexAfterFailureBreak(i, n) == n + 1
\* "continue" of the fallback loop
NextIndexAfterFailure(i, n) == i + 1

\* "if success_count > 0"
FallbackSucceeded(sc) == sc > 0

StatsSuccessAssign(s, n) == [s EXCEPT !.documents = 1, !.chunks = n]
StatsSuccess(s, n) == [s EXCEPT !.documents = @ + 1, !.chunks = @ + n]
StatsFailed(s) == [s EXCEPT !.failed = @ + 1]

Target(t) == cls[t].vector_collection_name
Records(t) == {<<t, i>> : i \in 1..nchunks[t]}

\* ----------------------------------------------------------- environment
\* A run's environment exhibits a group of fault classes, the parts outside the
\* group answering normally, and starts a number of concurrent calls.
\* "table": category-table errors; "model": every kind of model answer;
\* "loader": loading errors and multi-chunk documents; "embed": failed
\* embedding calls; "vector": vector-store errors.
FaultClasses == {"table", "model", "loader", "embed", "vector"}
Environments ==
    { [faults |-> {"table", "model"}, calls |-> NumDocs],
      [faults |-> {"loader", "embed", "vector"}, calls |-> NumDocs],
      [faults |-> FaultClasses, calls |-> 1] }

TableOutcomes == IF "table" \in env.faults THEN StoreOutcomes ELSE {"ok"}
ModelOutcomes ==
    IF "model" \in env.faults THEN PipelineResponses
    ELSE {r \in PipelineResponses : ~r.raises /\ Len(r.text) \in {1, 8}}
LoaderErrors == IF "loader" \in env.faults THEN ExceptionKinds \cup {""} ELSE {""}
ChunkCounts == IF "loader" \in env.faults THEN 0..MaxChunks ELSE 0..1
EmbedOutcomes == IF "embed" \in env.faults THEN BOOLEAN ELSE {TRUE}
VectorOutcomes == IF "vector" \in env.faults THEN BOOLEAN ELSE {TRUE}
SwitchOutcomes ==
    IF "vector" \in env.faults THEN CollOutcomes ELSE {[probe |-> TRUE, create |-> TRUE]}

\* no ingest_document call has run yet
InitTasks ==
    /\ pc = [t \in Tasks |-> IF t <= env.calls THEN "classify" ELSE "unused"]
    /\ cls = [t \in Tasks |-> NoItem]
    /\ exc = [t \in Tasks |-> ""]
    /\ outcome = [t \in Tasks |-> "pending"]
    /\ nchunks = [t \in Tasks |-> 0]
    /\ emb = [t \in Tasks |-> <<>>]
    /\ fbIdx = [t \in Tasks |-> 0]
    /\ succ = [t \in Tasks |-> 0]
    /\ bulk = [t \in Tasks |-> "none"]
    /\ attempts = [t \in Tasks |-> <<>>]
    /\ stored = [t \in Tasks |-> 0]
    /\ incremented = [t \in Tasks |-> ""]
    /\ lastPut = "none"

NoStats == [documents |-> 0, chunks |-> 0, failed |-> 0]

InitPipeline ==
    /\ InitTasks
    /\ table = [c \in CategoryIds |-> NoItem]
    /\ collection = "documents"
    /\ current_collection_name = "documents"
    /\ colls = [n \in CollNames |-> IF n = "documents" THEN EmptyColl ELSE NoColl]
    /\ stats = NoStats

IdleClassify ==
    /\ resp = [raises |-> TRUE, text |-> <<>>, vals |-> ValuesA]
    /\ cpc = "idle"
    /\ cout = Raised

NoDecision == [status |-> "NONE"]

IdleQuery ==
    /\ query = <<>>
    /\ qpc = "idle"
    /\ routing_map = <<>>
    /\ category = "None"
    /\ routerOut = NoDecision
    /\ raw_results = <<>>
    /\ retrievalOut = NoDecision
    /\ envelope = NoDecision
    /\ calls = <<>>
    /\ category_store = {}

IdleReset ==
    /\ rpc = "idle"
    /\ confirm = FALSE
    /\ results = NoDecision
    /\ rcalls = <<>>
    /\ failures = {}

IdleSplit ==
    /\ split_text = <<>>
    /\ chunk_size = 1
    /\ chunk_overlap = 0
    /\ split_start = 0
    /\ chunks = <<>>
    /\ spc = "idle"
    /\ passes = 0

IdleProbe ==
    /\ gpc = "idle"
    /\ probe_env = NoDecision
    /\ probe_coll = NoColl
    /\ probe_before = NoColl

IdleEmbed ==
    /\ batch_size = 1
    /\ max_workers = 1
    /\ pool = 1
    /\ epc = [c \in Tasks |-> "idle"]
    /\ ntexts = [c \in Tasks |-> 0]
    /\ failing = [c \in Tasks |-> {}]
    /\ base = [c \in Tasks |-> 0]
    /\ tasks = [c \in Tasks |-> <<>>]
    /\ finished = [c \in Tasks |-> <<>>]
    /\ all_embeddings = [c \in Tasks |-> <<>>]
    /\ vectors_data = [c \in Tasks |-> <<>>]

\* A pipeline that ingests nothing: the state the other specifications start from.
IdlePipeline == env = [faults |-> {}, calls |-> 0] /\ InitPipeline

Init ==
    /\ env \in Environments
    /\ InitPipeline
    /\ IdleClassify /\ IdleQuery /\ IdleReset /\ IdleSplit /\ IdleProbe /\ IdleEmbed

\* classify_document raised: "except Exception" of ingest_document, lines 38-47
ClassifierRaised(t) ==
    /\ cls' = [cls EXCEPT ![t] = PipelineDefault]
    /\ pc' = [pc EXCEPT ![t] = "process"]

\* ingest_document up to the classifier's model call: filename, preview,
\* _get_all_categories (its result only feeds the prompt), _classify_with_llm
ClassifyLLM(t) ==
    /\ pc[t] = "classify"
    /\ \E scan \in TableOutcomes, r \in ModelOutcomes :
          IF scan = "other_error" \/ ClassifyWithLLM(r).raised
          THEN ClassifierRaised(t)
          ELSE /\ cls' = [cls EXCEPT ![t] = ClassifyWithLLM(r).value]
               /\ pc' = [pc EXCEPT ![t] = "get"]
    /\ lastPut' = "none"
    /\ UNCHANGED <<env, exc, outcome, nchunks, emb, fbIdx, succ, bulk, attempts, stored,
                   incremented, table, collection, current_collection_name, colls, stats,
                   ovars>>

\* _get_category and the branch on its result
GetCategory(t) ==
    /\ pc[t] = "get"
    /\ \E o \in TableOutcomes :
          LET existing == IF o = "ok" THEN table[cls[t].category_id] ELSE NoItem
          IN  IF o = "other_error"
              THEN ClassifierRaised(t)
              ELSE IF existing = NoItem
              THEN /\ pc' = [pc EXCEPT ![t] = "create"]
                   /\ cls' = cls
              ELSE IF {"vector_collection_name", "description"} \subseteq DOMAIN existing
              THEN /\ cls' = [cls EXCEPT ![t] = UseExisting(cls[t], existing)]
                   /\ pc' = [pc EXCEPT ![t] = "incr"]
              ELSE ClassifierRaised(t)   \* KeyError
    /\ lastPut' = "none"
    /\ UNCHANGED <<env, exc, outcome, nchunks, emb, fbIdx, succ, bulk, attempts, stored,
                   incremented, table, collection, current_collection_name, colls, stats,
                   ovars>>

\* _create_category, then is_new = True
CreateCategory(t) ==
    /\ pc[t] = "create"
    /\ \E o \in TableOutcomes :
          LET r == PutItemIfAbsent(table, NewItem(cls[t]))
          IN  /\ table' = IF o = "ok" THEN r.table ELSE table
              /\ lastPut' = IF o = "ok" THEN (IF r.ok THEN "created" ELSE "exists") ELSE o
              /\ IF o = "other_error"
                 THEN ClassifierRaised(t)
                 ELSE /\ cls' = [cls EXCEPT ![t] = WithIsNew(cls[t], TRUE)]
                      /\ pc' = [pc EXCEPT ![t] = "incr"]
    /\ UNCHANGED <<env, exc, outcome, nchunks, emb, fbIdx, succ, bulk, attempts, stored,
                   incremented, collection, current_collection_name, colls, stats, ovars>>

\* _increment_count, then classify_document returns
IncrementCount(t) ==
    /\ pc[t] = "incr"
    /\ \E o \in TableOutcomes :
          /\ table' = IF o = "ok" THEN UpdateItemAdd(table, cls[t].category_id) ELSE table
          /\ incremented' = [incremented EXCEPT ![t] =
                IF o = "ok" THEN cls[t].category_id ELSE @]
          /\ IF o = "other_error"
             THEN ClassifierRaised(t)
             ELSE /\ pc' = [pc EXCEPT ![t] = "process"]
                  /\ cls' = cls
    /\ lastPut' = "none"
    /\ UNCHANGED <<env, exc, outcome, nchunks, emb, fbIdx, succ, bulk, attempts, stored,
                   collection, current_collection_name, colls, stats, ovars>>

\* process_document in its thread, then "if not chunks"
ProcessDocument(t) ==
    /\ pc[t] = "process"
    /\ \E e \in LoaderErrors, n \in ChunkCounts :
          IF e # ""
          THEN /\ n = 0
               /\ exc' = [exc EXCEPT ![t] = e]
               /\ pc' = [pc EXCEPT ![t] = "handler"]
               /\ UNCHANGED <<nchunks, outcome>>
          ELSE /\ nchunks' = [nchunks EXCEPT ![t] = n]
               /\ pc' = [pc EXCEPT ![t] = NextAfterProcess(n)]
               /\ outcome' = [outcome EXCEPT ![t] =
                     IF NextAfterProcess(n) = "done" THEN "returned_none" ELSE @]
               /\ exc' = exc
    /\ lastPut' = "none"
    /\ UNCHANGED <<env, cls, emb, fbIdx, succ, bulk, attempts, stored, incremented,
                   table, collection, current_collection_name, colls, stats, ovars>>

\* generate_embeddings_async and the vectors_data list
GenerateEmbeddings(t) ==
    /\ pc[t] = "embed"
    /\ \E oks \in [1..nchunks[t] -> EmbedOutcomes] :
          emb' = [emb EXCEPT ![t] = [i \in 1..nchunks[t] |-> EmbedText(oks[i])]]
    /\ pc' = [pc EXCEPT ![t] = "bulk"]
    /\ lastPut' = "none"
    /\ UNCHANGED <<env, cls, exc, outcome, nchunks, fbIdx, succ, bulk, attempts, stored,
                   incremented, table, collection, current_collection_name, colls, stats,
                   ovars>>

\* the bulk insert raised: the fallback loop starts
StartFallback(t) ==
    /\ bulk' = [bulk EXCEPT ![t] = "failed"]
    /\ fbIdx' = [fbIdx EXCEPT ![t] = 1]
    /\ succ' = [succ EXCEPT ![t] = 0]
    /\ pc' = [pc EXCEPT ![t] = "fb_set"]

\* add_embeddings_bulk: the empty check and the test of the active collection
\* (line 180, which set_collection repeats at line 97 before it switches)
BulkBegin(t) ==
    /\ pc[t] = "bulk"
    /\ IF Len(emb[t]) = 0
       THEN /\ pc' = [pc EXCEPT ![t] = "commit"]
            /\ bulk' = [bulk EXCEPT ![t] = "ok"]
       ELSE /\ pc' = [pc EXCEPT ![t] =
                 IF Target(t) # current_collection_name THEN "bulk_switch" ELSE "bulk_add"]
            /\ bulk' = bulk
    /\ lastPut' = "none"
    /\ UNCHANGED <<env, cls, exc, outcome, nchunks, emb, fbIdx, succ, attempts, stored,
                   incremented, table, collection, current_collection_name, colls, stats,
                   ovars>>

\* set_collection: _get_or_create_collection and self.collection = ...
BulkSwitch(t) ==
    /\ pc[t] = "bulk_switch"
    /\ \E o \in SwitchOutcomes :
          LET r == GetOrCreateCollection(colls, Target(t), o)
          IN  /\ colls' = r.colls
              /\ IF r.raised
                 THEN StartFallback(t) /\ collection' = collection
                 ELSE /\ collection' = Target(t)
                      /\ pc' = [pc EXCEPT ![t] = "bulk_name"]
                      /\ UNCHANGED <<bulk, fbIdx, succ>>
    /\ lastPut' = "none"
    /\ UNCHANGED <<env, cls, exc, outcome, nchunks, emb, attempts, stored, incremented,
                   table, current_collection_name, stats, ovars>>

\* set_collection: self.current_collection_name = ...
BulkName(t) ==
    /\ pc[t] = "bulk_name"
    /\ current_collection_name' = Target(t)
    /\ pc' = [pc EXCEPT ![t] = "bulk_add"]
    /\ lastPut' = "none"
    /\ UNCHANGED <<env, cls, exc, outcome, nchunks, emb, fbIdx, succ, bulk, attempts,
                   stored, incremented, table, collection, colls, stats, ovars>>

\* add_embeddings_bulk: self.collection.add of the whole batch
BulkAdd(t) ==
    /\ pc[t] = "bulk_add"
    /\ \E ok \in VectorOutcomes :
          IF ok /\ colls[collection].exists
          THEN /\ colls' = CollectionAdd(colls, collection, Records(t))
               /\ stored' = [stored EXCEPT ![t] = @ + nchunks[t]]
               /\ bulk' = [bulk EXCEPT ![t] = "ok"]
               /\ pc' = [pc EXCEPT ![t] = "commit"]
               /\ UNCHANGED <<fbIdx, succ>>
          ELSE /\ StartFallback(t)
               /\ UNCHANGED <<colls, stored>>
    /\ lastPut' = "none"
    /\ UNCHANGED <<env, cls, exc, outcome, nchunks, emb, attempts, incremented, table,
                   collection, current_collection_name, stats, ovars>>

\* the fallback loop moves on to record i; after the last one, lines 101-104
NextRecord(t, i, sc) ==
    IF i <= nchunks[t]
    THEN /\ pc' = [pc EXCEPT ![t] = "fb_set"]
         /\ exc' = exc
    ELSE IF FallbackSucceeded(sc)
    THEN /\ pc' = [pc EXCEPT ![t] = "commit"]
         /\ exc' = exc
    ELSE /\ pc' = [pc EXCEPT ![t] = "handler"]
         /\ exc' = [exc EXCEPT ![t] = "Exception"]

\* fallback, record fbIdx: set_collection's test of the active collection
FbSet(t) ==
    /\ pc[t] = "fb_set"
    /\ attempts' = [attempts EXCEPT ![t] = Append(@, fbIdx[t])]
    /\ pc' = [pc EXCEPT ![t] =
          IF Target(t) # current_collection_name THEN "fb_switch" ELSE "fb_add"]
    /\ lastPut' = "none"
    /\ UNCHANGED <<env, cls, exc, outcome, nchunks, emb, fbIdx, succ, bulk, stored,
                   incremented, table, collection, current_collection_name, colls, stats,
                   ovars>>

\* fallback, record fbIdx: _get_or_create_collection and self.collection = ...
FbSwitch(t) ==
    /\ pc[t] = "fb_switch"
    /\ \E o \in SwitchOutcomes :
          LET r == GetOrCreateCollection(colls, Target(t), o)
          IN  /\ colls' = r.colls
              /\ IF r.raised
                 THEN /\ fbIdx' = [fbIdx EXCEPT ![t] = NextIndexAfterFailure(@, nchunks[t])]
                      /\ NextRecord(t, NextIndexAfterFailure(fbIdx[t], nchunks[t]), succ[t])
                      /\ collection' = collection
                 ELSE /\ collection' = Target(t)
                      /\ pc' = [pc EXCEPT ![t] = "fb_name"]
                      /\ UNCHANGED <<fbIdx, exc>>
    /\ lastPut' = "none"
    /\ UNCHANGED <<env, cls, outcome, nchunks, emb, succ, bulk, attempts, stored,
                   incremented, table, current_collection_name, stats, ovars>>

\* fallback, record fbIdx: self.current_collection_name = ...
FbName(t) ==
    /\ pc[t] = "fb_name"
    /\ current_collection_name' = Target(t)
    /\ pc' = [pc EXCEPT ![t] = "fb_add"]
    /\ lastPut' = "none"
    /\ UNCHANGED <<env, cls, exc, outcome, nchunks, emb, fbIdx, succ, bulk, attempts,
                   stored, incremented, table, collection, colls, stats, ovars>>

\* fallback, record fbIdx: add_embedding
FbAdd(t) ==
    /\ pc[t] = "fb_add"
    /\ \E ok \in VectorOutcomes :
          IF ok /\ colls[collection].exists
          THEN /\ colls' = CollectionAdd(colls, collection, {<<t, fbIdx[t]>>})
               /\ stored' = [stored EXCEPT ![t] = @ + 1]
               /\ succ' = [succ EXCEPT ![t] = @ + 1]
               /\ fbIdx' = [fbIdx EXCEPT ![t] = @ + 1]
               /\ NextRecord(t, fbIdx[t] + 1, succ[t] + 1)
          ELSE /\ fbIdx' = [fbIdx EXCEPT ![t] = NextIndexAfterFailure(@, nchunks[t])]
               /\ NextRecord(t, NextIndexAfterFailure(fbIdx[t], nchunks[t]), succ[t])
               /\ UNCHANGED <<colls, stored, succ>>
    /\ lastPut' = "none"
    /\ UNCHANGED <<env, cls, outcome, nchunks, emb, bulk, attempts, incremented, table,
                   collection, current_collection_name, stats, ovars>>

\* "async with self._lock" and the two counters, one step of the event loop
\* (the lock is free whenever it is asked for: no await inside it), then
\* "return classification"
Commit(t) ==
    /\ pc[t] = "commit"
    /\ stats' = StatsSuccess(stats, nchunks[t])
    /\ outcome' = [outcome EXCEPT ![t] = "returned_category"]
    /\ pc' = [pc EXCEPT ![t] = "done"]
    /\ lastPut' = "none"
    /\ UNCHANGED <<env, cls, exc, nchunks, emb, fbIdx, succ, bulk, attempts, stored,
                   incremented, table, collection, current_collection_name, colls, ovars>>

\* "except Exception" of ingest_document: failed += 1, return None
Handler(t) ==
    /\ pc[t] = "handler"
    /\ IF OuterCatches(exc[t])
       THEN /\ stats' = StatsFailed(stats)
            /\ outcome' = [outcome EXCEPT ![t] = "failed_none"]
       ELSE /\ stats' = stats
            /\ outcome' = [outcome EXCEPT ![t] = "raised"]
    /\ exc' = [exc EXCEPT ![t] = ""]
    /\ pc' = [pc EXCEPT ![t] = "done"]
    /\ lastPut' = "none"
    /\ UNCHANGED <<env, cls, nchunks, emb, fbIdx, succ, bulk, attempts, stored,
                   incremented, table, collection, current_collection_name, colls, ovars>>

Next ==
    \E t \in Tasks :
        \/ ClassifyLLM(t)
        \/ GetCategory(t)
        \/ CreateCategory(t)
        \/ IncrementCount(t)
        \/ ProcessDocument(t)
        \/ GenerateEmbeddings(t)
        \/ BulkBegin(t)
        \/ BulkSwitch(t)
        \/ BulkName(t)
        \/ BulkAdd(t)
        \/ FbSet(t)
        \/ FbSwitch(t)
        \/ FbName(t)
        \/ FbAdd(t)
        \/ Commit(t)
        \/ Handler(t)

Spec == Init /\ [][Next]_vars

Called == {t \in Tasks : t <= env.calls}
AllDone == \A t \in Called : pc[t] = "done"

\* ------------------------------------------------------------ query path
MaxHits == 3

\* Python's None, where the value is otherwise a string
None == "None"

\* dict.get(k, default)
Get(d, k, default) == IF DOMAIN d # {} /\ k \in DOMAIN d THEN d[k] ELSE default

\* k in d, for a dict d
In(k, d) == DOMAIN d # {} /\ k \in DOMAIN d

\* str.lower on the characters the queries are made of
LowerChar(c) ==
    CASE c = "H" -> "h"
      [] c = "I" -> "i"
      [] c = "E" -> "e"
      [] c = "Y" -> "y"
      [] OTHER -> c

Lower(s) == [i \in 1..Len(s) |-> LowerChar(s[i])]

RECURSIVE LStrip(_)
LStrip(s) == IF s # <<>> /\ Head(s) = " " THEN LStrip(Tail(s)) ELSE s

RECURSIVE RStrip(_)
RStrip(s) ==
    IF s # <<>> /\ s[Len(s)] = " " THEN RStrip(SubSeq(s, 1, Len(s) - 1)) ELSE s

\* str.strip
Strip(s) == RStrip(LStrip(s))

\* RouterAgent.GREETINGS, character by character
GREETINGS ==
    { <<"h", "i">>,
      <<"h", "e", "l", "l", "o">>,
      <<"h", "e", "y">>,
      <<"g", "o", "o", "d", " ", "m", "o", "r", "n", "i", "n", "g">>,
      <<"g", "o", "o", "d", " ", "e", "v", "e", "n", "i", "n", "g">>,
      <<"g", "o", "o", "d", " ", "a", "f", "t", "e", "r", "n", "o", "o", "n">> }

\* SynthesisAgent._is_greeting, which repeats the Router's list
IsGreeting(q) ==
    Lower(Strip(q)) \in
        { <<"h", "i">>,
          <<"h", "e", "l", "l", "o">>,
          <<"h", "e", "y">>,
          <<"g", "o", "o", "d", " ", "m", "o", "r", "n", "i", "n", "g">>,
          <<"g", "o", "o", "d", " ", "e", "v", "e", "n", "i", "n", "g">>,
          <<"g", "o", "o", "d", " ", "a", "f", "t", "e", "r", "n", "o", "o", "n">> }

\* The queries a caller sends: missing, greetings in several spellings, blank,
\* ordinary questions, and a question that quotes the prompt's closing tag.
Queries ==
    { <<>>,
      <<"h", "i">>,
      <<" ", "H", "i", " ">>,
      <<"H", "E", "Y">>,
      <<"h", " ", "i">>,
      <<" ">>,
      <<"x">>,
      <<"x", "</system>">> }

\* ---- Category Store as the Router reads it
ItemA == NewItem(ValuesA)
ItemB == [NewItem(ValuesB) EXCEPT !.category_id = "catB", !.document_count = 2]
\* the record update_item ADD leaves when no record existed
ItemPartial == UpdateItemAdd([c \in {"catP"} |-> NoItem], "catP")["catP"]

\* the tables a query may find
CategoryStores == {{}, {ItemA}, {ItemA, ItemB}, {ItemPartial}}

\* table.scan() raises, or returns its first page under "Items": every item, or,
\* for a table past the size of a page, some of them and a LastEvaluatedKey
ScanOutcomes(store) ==
    [raises : {TRUE}, items : {{}}]
    \cup [raises : {FALSE}, items : {p \in SUBSET store : p # {} \/ store = {}}]

\* RoutingConfig.get_routing_map
GetRoutingMap(scan) ==
    IF scan.raises THEN <<>>
    ELSE [cid \in {i.category_id : i \in scan.items} |->
            LET i == CHOOSE j \in scan.items : j.category_id = cid
            IN [collection_name |-> Get(i, "vector_collection_name", None),
                description |-> Get(i, "description", None),
                document_count |-> Get(i, "document_count", "N/A"),
                keywords |-> Get(i, "keywords", <<>>),
                domain |-> Get(i, "domain", "General")]]

\* ---- LLMClassifier.classify
\* a JSON object or array as the value of category_id: Python cannot hash it
Unhashable == "<object>"

CategoryValues == {"catA", "catB", "catZ", "", None, Unhashable}

\* the model's answer: it raises, or gives a text whose category_id is value
RouterResponses ==
    [raises : {TRUE}, text : {<<>>}, value : {None}]
    \cup [raises : {FALSE},
          text : {<<"x">>, <<"}", "{">>, <<"{", "}">>, <<"{", "x", "}">>},
          value : {None}]
    \cup [raises : {FALSE}, text : {<<"x", "{", "category_id", "}">>},
          value : CategoryValues]

Classify(r) ==
    IF r.raises THEN None
    ELSE IF Find(r.text, "{") # -1 /\ Find(r.text, "}") # -1
         THEN LET js == Slice(r.text, Find(r.text, "{"), RFind(r.text, "}") + 1)
                  obj == JsonLoads(js, [k \in PairTokens |-> r.value])
              IN IF obj.raised THEN None
                 ELSE Get(obj.value, "category_id", None)
         ELSE None

\* ---- RouterAgent.invoke behind its lambda_handler
ErrorDecision(msg) == [status |-> "ERROR", message |-> msg]
FatalError == [status |-> "FATAL_ERROR"]

Continue(agent, q, cd) ==
    [status |-> "CONTINUE", next_agent |-> agent, query |-> q, context_data |-> cd]

\* "if not category or category not in routing_map", for a hashable category
Unmatched(cat, rm) == cat = None \/ cat = "" \/ ~In(cat, rm)

\* the decision for a non-greeting query, given the map and the classifier's answer
RouteClassified(q, rm, cat) ==
    IF cat = Unhashable
    THEN FatalError
    ELSE IF Unmatched(cat, rm)
    THEN Continue("SynthesisAgent", q,
                  [routing_map |-> rm, classification_result |-> cat])
    ELSE Continue("RetrievalAgent", q,
                  [routing_category |-> cat,
                   search_scope |-> <<rm[cat].collection_name>>,
                   domain |-> rm[cat].domain,
                   category_config |-> rm[cat]])

\* the agent a decision hands the query to
NextAgent(d) ==
    IF d.status # "CONTINUE" THEN "done"
    ELSE IF d.next_agent = "RetrievalAgent" THEN "retrieval"
    ELSE "synthesis"

Router ==
    /\ qpc = "router"
    /\ \E scan \in ScanOutcomes(category_store), r \in RouterResponses :
        LET rm == GetRoutingMap(scan)
            cat == Classify(r)
        IN  IF query = <<>>
            THEN /\ routerOut' = ErrorDecision("Missing query.")
                 /\ UNCHANGED <<routing_map, category, calls>>
            ELSE IF DOMAIN rm = {}
            THEN /\ routerOut' = ErrorDecision("Routing config not found.")
                 /\ routing_map' = rm
                 /\ calls' = calls \o <<"scan">>
                 /\ UNCHANGED category
            ELSE IF Lower(Strip(query)) \in GREETINGS
            THEN /\ routerOut' = Continue("SynthesisAgent", query, [routing_map |-> rm])
                 /\ routing_map' = rm
                 /\ calls' = calls \o <<"scan">>
                 /\ UNCHANGED category
            ELSE /\ routerOut' = RouteClassified(query, rm, cat)
                 /\ routing_map' = rm
                 /\ category' = cat
                 /\ calls' = calls \o <<"scan", "classify">>
    /\ qpc' = NextAgent(routerOut')
    /\ UNCHANGED <<query, raw_results, retrievalOut, envelope, category_store>>
    /\ UNCHANGED <<pvars, cvars, rvars, svars, gvars, evars>>

\* ---- ChromaVectorClient.search
\* distances in tenths, so that relevance_score = 1 - distance is 10 - d
Distances == {1, 5, 7, 8, 12}
RelevanceThreshold == 3

\* what collection.query returns: at most MaxHits hits in ascending distance
HitLists ==
    UNION {{h \in [1..n -> Distances] : \A i \in 1..(n - 1) : h[i] <= h[i + 1]}
           : n \in 0..MaxHits}

SearchCases == {"absent", "empty", "zero_embedding", "query_error", "hits"}

\* the int n of a metadata value, written as its numeral
Numeral(n) == <<"0", "1", "2", "3", "4", "5">>[n + 1]

\* Python's truth test of a metadata value: None, "" and the int 0 are false
Falsy(v) == v \in {None, "", Numeral(0)}

\* md.get(k1) or md.get(k2) or ... or default
OrChain(md, keys, default) ==
    LET truthy == {k \in 1..Len(keys) : In(keys[k], md) /\ ~Falsy(md[keys[k]])}
    IN  IF truthy = {} THEN default
        ELSE md[keys[CHOOSE k \in truthy : \A l \in truthy : k <= l]]

\* the metadata the hits of a collection carry: as ingest_document wrote it
\* (chunk_index from 0); with the first alias of each list and later ones; with
\* later aliases only; none
MetadataCases == {"ingested", "explicit", "paged", "bare"}

\* results['metadatas'][0][i] or {}
MetadataOf(m, i) ==
    IF m = "ingested"
    THEN [source_file |-> "/in/doc.pdf", filename |-> "doc.pdf",
          category_id |-> "catA", chunk_index |-> Numeral(i - 1)]
    ELSE IF m = "explicit"
    THEN [source_uri |-> "s3://doc", source |-> "web", filename |-> "doc.pdf",
          chunk_id |-> Numeral(i + 1), chunk_index |-> Numeral(i - 1)]
    ELSE IF m = "paged"
    THEN [file_path |-> "", document_id |-> "d1",
          page_number |-> Numeral(i - 1), section_id |-> "s1"]
    ELSE <<>>

\* results['ids'][0][i]
RawId(i) == <<"id1", "id2", "id3", "id4", "id5">>[i]

\* one record per hit, in the order of the hits
Documents(h, m) ==
    [i \in 1..Len(h) |->
        [text |-> <<"chunk", i>>,
         source_uri |->
            OrChain(MetadataOf(m, i),
                    <<"source_uri", "source", "file_path", "filename", "document_id">>,
                    "N/A"),
         chunk_id |->
            OrChain(MetadataOf(m, i),
                    <<"chunk_id", "chunk_index", "page_number", "section_id">>,
                    RawId(i)),
         relevance_score |-> 10 - h[i],
         metadata |-> MetadataOf(m, i)]]

\* the result of search and the store and model calls it made
Search(name, case, h, m) ==
    IF name = None \/ case = "absent"
    THEN [docs |-> <<>>, calls |-> <<"get_collection">>]
    ELSE IF case = "empty"
    THEN [docs |-> <<>>, calls |-> <<"get_collection", "count">>]
    ELSE IF case = "zero_embedding"
    THEN [docs |-> <<>>, calls |-> <<"get_collection", "count", "embed">>]
    ELSE IF case = "query_error"
    THEN [docs |-> <<>>, calls |-> <<"get_collection", "count", "embed", "search">>]
    ELSE [docs |-> Documents(h, m),
          calls |-> <<"get_collection", "count", "embed", "search">>]

\* ---- RetrievalAgent.invoke
PassesThresholdStrict(r) == r.relevance_score > RelevanceThreshold
\* r['relevance_score'] >= relevance_threshold
PassesThreshold(r) == r.relevance_score >= RelevanceThreshold

FilteredResults(raw) == SelectSeq(raw, PassesThreshold)

RetrievedTexts(f) == [i \in 1..Len(f) |-> f[i].text]

SourceMetadata(f) ==
    [i \in 1..Len(f) |->
        [source_uri |-> f[i].source_uri, chunk_id |-> f[i].chunk_id,
         score |-> f[i].relevance_score]]

Retrieval ==
    /\ qpc = "retrieval"
    /\ \E case \in SearchCases, h \in HitLists, m \in MetadataCases :
        LET cd == routerOut.context_data
            search_scopes == Get(cd, "search_scope", <<>>)
            res == Search(search_scopes[1], case, h, m)
            f == FilteredResults(res.docs)
        IN  IF routerOut.query = <<>> \/ search_scopes = <<>>
            THEN /\ retrievalOut' = [status |-> "ERROR",
                                     message |-> "Missing query or search_scope.",
                                     context_data |-> <<>>]
                 /\ UNCHANGED <<raw_results, calls>>
            ELSE /\ raw_results' = res.docs
                 /\ calls' = calls \o res.calls
                 /\ retrievalOut' =
                        Continue("SynthesisAgent", routerOut.query,
                                 [routing_category |-> Get(cd, "routing_category", None),
                                  retrieved_texts |-> RetrievedTexts(f),
                                  source_metadata |-> SourceMetadata(f),
                                  category_config |-> Get(cd, "category_config", <<>>),
                                  search_scope |-> search_scopes])
    /\ qpc' = NextAgent(retrievalOut')
    /\ UNCHANGED <<query, routing_map, category, routerOut, envelope, category_store>>
    /\ UNCHANGED <<pvars, cvars, rvars, svars, gvars, evars>>

\* ---- SynthesisAgent
\* the fixed answers, each a one-element text
NoRelevantDocuments == <<"No relevant documents found">>
AnswerGenerationFailed == <<"Answer generation failed.">>
FallbackText == <<"fallback">>
GreetingText == <<"greeting">>
JsonAnswer == <<"answer of the JSON object">>

\* the fallback's hardcoded category list
FallbackCategories ==
    {"insurance_policy_booklet", "insurance_vehicle_policy", "insurance_keycare_policy",
     "insurance_credit_agreement", "insurance_claims"}

\* what the generative model gives: it raises, or a text of tokens
GenResponses ==
    [raises : {TRUE}, text : {<<>>}]
    \cup [raises : {FALSE},
          text : {<<>>, <<" ">>, <<"x">>, <<"x", "{", "answer", "}">>,
                  <<"{", "x", "}">>, <<"{", "}">>, <<"}", "{">>}]

\* json.loads of the model's text: an object of "answer" keys, or JSONDecodeError
GenJsonLoads(js) ==
    IF /\ Len(js) >= 2
       /\ js[1] = "{"
       /\ js[Len(js)] = "}"
       /\ \A i \in 2..(Len(js) - 1) : js[i] = "answer"
    THEN Ret({js[i] : i \in 2..(Len(js) - 1)})
    ELSE Raised

\* number of "</system>" in the prompt _generate_retrieval_prompt builds: its own
\* and the query's (the chunks of the model hold none)
SystemTags(q) == 1 + Cardinality({i \in 1..Len(q) : q[i] = "</system>"})

\* _invoke_bedrock_llm: final_answer, citations, and whether the model was called
InvokeBedrockLLM(q, g, source_metadata) ==
    IF SystemTags(q) # 1
    THEN [final_answer |-> AnswerGenerationFailed, citations |-> <<>>, called |-> FALSE]
    ELSE IF g.raises
    THEN [final_answer |-> AnswerGenerationFailed, citations |-> <<>>, called |-> TRUE]
    ELSE LET txt == Strip(g.text)
             json_start == Find(txt, "{")
             json_end == RFind(txt, "}") + 1
             obj == GenJsonLoads(Slice(txt, json_start, json_end))
         IN  IF json_start # -1 /\ json_end > json_start /\ ~obj.raised
             THEN [final_answer |-> IF "answer" \in obj.value THEN JsonAnswer ELSE txt,
                   citations |-> source_metadata, called |-> TRUE]
             ELSE [final_answer |-> txt, citations |-> source_metadata, called |-> TRUE]

Completed(answer, cites) ==
    [status |-> "COMPLETED", final_answer |-> answer, citations |-> cites]

\* _handle_retrieval_response
HandleRetrievalResponse(q, cd, g) ==
    LET retrieved_texts == Get(cd, "retrieved_texts", <<>>)
        source_metadata == Get(cd, "source_metadata", <<>>)
        llm == InvokeBedrockLLM(q, g, source_metadata)
    IN  IF retrieved_texts = <<>>
        THEN [answer |-> Completed(NoRelevantDocuments, <<>>), calls |-> <<>>]
        ELSE [answer |-> [status |-> "COMPLETED", query |-> q,
                       routing_category |-> Get(cd, "routing_category", None),
                       final_answer |-> llm.final_answer,
                       citations |-> llm.citations],
              calls |-> IF llm.called THEN <<"generate">> ELSE <<>>]

\* _generate_fallback_response
GenerateFallbackResponse ==
    [status |-> "COMPLETED", final_answer |-> FallbackText,
     categories |-> FallbackCategories, citations |-> <<>>]

\* _generate_greeting_response
GenerateGreetingResponse(rm) ==
    [status |-> "COMPLETED", final_answer |-> GreetingText,
     categories |-> DOMAIN rm, citations |-> <<>>]

\* _generate_summary_response
GenerateSummaryResponse(rm, g) ==
    IF g.raises \/ Strip(g.text) = <<>>
    THEN GenerateFallbackResponse
    ELSE [status |-> "COMPLETED", final_answer |-> Strip(g.text),
          query_type |-> "general_inquiry", categories |-> DOMAIN rm,
          citations |-> <<>>]

\* _handle_general_response
HandleGeneralResponse(q, cd, g) ==
    LET rm == Get(cd, "routing_map", <<>>)
        classification_result == Get(cd, "classification_result", None)
    IN  IF IsGreeting(q)
        THEN [answer |-> GenerateGreetingResponse(rm), calls |-> <<>>]
        ELSE IF classification_result = None
        THEN [answer |-> GenerateSummaryResponse(rm, g), calls |-> <<"summary">>]
        ELSE [answer |-> GenerateFallbackResponse, calls |-> <<>>]

\* SynthesisAgent.invoke on the decision of the agent that ran last
SynthesisInvoke(d, g) ==
    LET cd == Get(d, "context_data", <<>>)
    IN  IF d.query = <<>>
        THEN [answer |-> ErrorDecision("Missing query in context."), calls |-> <<>>]
        ELSE IF Get(cd, "retrieved_texts", <<>>) # <<>>
        THEN HandleRetrievalResponse(d.query, cd, g)
        ELSE HandleGeneralResponse(d.query, cd, g)

\* the decision handed to the Synthesizer
LastDecision == IF retrievalOut = NoDecision THEN routerOut ELSE retrievalOut

Synthesis ==
    /\ qpc = "synthesis"
    /\ \E g \in GenResponses :
        LET out == SynthesisInvoke(LastDecision, g)
        IN  /\ envelope' = out.answer
            /\ calls' = calls \o out.calls
    /\ qpc' = "done"
    /\ UNCHANGED <<query, routing_map, category, routerOut, raw_results, retrievalOut,
                   category_store>>
    /\ UNCHANGED <<pvars, cvars, rvars, svars, gvars, evars>>

InitQuery ==
    /\ IdlePipeline
    /\ IdleClassify /\ IdleReset /\ IdleSplit /\ IdleProbe /\ IdleEmbed
    /\ query \in Queries
    /\ qpc = "router"
    /\ routing_map = <<>>
    /\ category = None
    /\ routerOut = NoDecision
    /\ raw_results = <<>>
    /\ retrievalOut = NoDecision
    /\ envelope = NoDecision
    /\ calls = <<>>
    /\ category_store \in CategoryStores

NextQuery == Router \/ Retrieval \/ Synthesis

SpecQuery == InitQuery /\ [][NextQuery]_vars

\* -------------------------------------------------------- reset_all_data
ConfirmedAlways(c) == TRUE
\* "if not confirm" lets the call through
Confirmed(c) == c

\* the results dict: the overall status and one status per subsystem
PendingResults ==
    [status |-> "in_progress", dynamodb |-> "pending",
     vector_database |-> "pending", ingestion_stats |-> "pending"]

Present(tbl) == {c \in CategoryIds : tbl[c] # NoItem}
ExistingColls(cs) == {n \in CollNames : cs[n].exists}

\* table.scan() without ExclusiveStartKey gives the first page: every item, or,
\* for a table past the page size, some of them
ScanPages(tbl) == {p \in SUBSET Present(tbl) : p # {} \/ Present(tbl) = {}}

\* how the deletion of one collection ends: client.delete_collection worked;
\* it raised and collection.delete() returned, having emptied the collection;
\* both raised
DeletionOutcomes == {"deleted", "alt_cleared", "failed"}

\* the overall status, from the two subsystems' statuses
OverallStatus(d, v) ==
    LET successful_operations ==
            Cardinality({i \in 1..2 : <<d, v>>[i] \in {"success", "skipped"}})
        partial_operations ==
            Cardinality({i \in 1..2 : <<d, v>>[i] = "partial_success"})
    IN  IF successful_operations = 2 THEN "success"
        ELSE IF successful_operations + partial_operations >= 1 THEN "partial_success"
        ELSE "error"

\* the counters after "async with self._lock" of reset_all_data
StatsReset(s) == NoStats

\* reset_all_data(confirm=False)
ResetCancel ==
    /\ rpc = "start"
    /\ ~Confirmed(confirm)
    /\ results' = [status |-> "cancelled"]
    /\ rpc' = "done"
    /\ UNCHANGED <<confirm, rcalls, failures>>
    /\ UNCHANGED <<pvars, cvars, qvars, svars, gvars, evars>>

\* the Category Store part: the classifier has neither reset_all_categories nor
\* _delete_category, so the branch on classifier.table runs. A delete_item that
\* raises is logged and the loop goes on; a scan that raises ends the part.
ResetCategories ==
    /\ rpc = "start"
    /\ Confirmed(confirm)
    /\ \/ /\ results' = [PendingResults EXCEPT !.dynamodb = "error"]
          /\ rcalls' = rcalls \o <<"scan">>
          /\ failures' = failures \cup {"dynamodb"}
          /\ UNCHANGED table
       \/ \E page \in ScanPages(table) : \E failed \in SUBSET page :
            /\ table' = [c \in CategoryIds |->
                            IF c \in page \ failed THEN NoItem ELSE table[c]]
            /\ results' = [PendingResults EXCEPT !.dynamodb = "success"]
            /\ rcalls' = rcalls \o <<"scan">>
                            \o [i \in 1..Cardinality(page) |-> "delete_item"]
            /\ failures' = IF failed # {} THEN failures \cup {"dynamodb"} ELSE failures
    /\ rpc' = "vectors"
    /\ UNCHANGED <<env, pc, cls, exc, outcome, nchunks, emb, fbIdx, succ, bulk,
                   attempts, stored, incremented, lastPut, collection,
                   current_collection_name, colls, stats>>
    /\ UNCHANGED <<confirm, cvars, qvars, svars, gvars, evars>>

\* the vector store part: ChromaDBStore has neither reset_all_collections nor
\* delete_all, so the branch on vector_store.client.list_collections runs
ResetVectors ==
    /\ rpc = "vectors"
    /\ \/ /\ results' = [results EXCEPT !.vector_database = "error"]
          /\ rcalls' = rcalls \o <<"list_collections">>
          /\ failures' = failures \cup {"vector_database"}
          /\ UNCHANGED colls
       \/ \E o \in [ExistingColls(colls) -> DeletionOutcomes] :
            LET found == ExistingColls(colls)
                failed == {n \in found : o[n] = "failed"}
            IN  /\ colls' = [n \in CollNames |->
                                IF n \notin found THEN colls[n]
                                ELSE IF o[n] = "deleted" THEN NoColl
                                ELSE IF o[n] = "alt_cleared" THEN EmptyColl
                                ELSE colls[n]]
                /\ results' = [results EXCEPT !.vector_database =
                                  IF failed = {} THEN "success" ELSE "partial_success"]
                /\ rcalls' = rcalls \o <<"list_collections">>
                                \o [i \in 1..Cardinality(found) |-> "delete_collection"]
                /\ failures' = IF failed # {} THEN failures \cup {"vector_database"}
                               ELSE failures
    /\ rpc' = "stats"
    /\ UNCHANGED <<env, pc, cls, exc, outcome, nchunks, emb, fbIdx, succ, bulk,
                   attempts, stored, incremented, lastPut, table, collection,
                   current_collection_name, stats>>
    /\ UNCHANGED <<confirm, cvars, qvars, svars, gvars, evars>>

\* the counters, under the lock, and the overall status
ResetStats ==
    /\ rpc = "stats"
    /\ stats' = StatsReset(stats)
    /\ results' = [results EXCEPT
                     !.ingestion_stats = "success",
                     !.status = OverallStatus(results.dynamodb, results.vector_database)]
    /\ rpc' = "done"
    /\ UNCHANGED <<env, pc, cls, exc, outcome, nchunks, emb, fbIdx, succ, bulk,
                   attempts, stored, incremented, lastPut, table, collection,
                   current_collection_name, colls>>
    /\ UNCHANGED <<confirm, rcalls, failures, cvars, qvars, svars, gvars, evars>>

\* the stores and counters a pipeline that has ingested may hold at the call
ResetTables ==
    { [c \in CategoryIds |-> NoItem],
      [c \in CategoryIds |->
          IF c = "catA" THEN [NewItem(ValuesA) EXCEPT !.document_count = 1] ELSE NoItem],
      [c \in CategoryIds |->
          IF c = "catA" THEN [NewItem(ValuesA) EXCEPT !.document_count = 1]
          ELSE [NewItem(GetDefaultClassification) EXCEPT !.document_count = 2]] }

ResetColls ==
    { [n \in CollNames |-> IF n = "documents" THEN EmptyColl ELSE NoColl],
      [n \in CollNames |->
          IF n = "documents" THEN EmptyColl
          ELSE IF n = "catA" THEN [exists |-> TRUE, items |-> {<<1, 1>>}]
          ELSE NoColl],
      [n \in CollNames |->
          IF n = "documents" THEN EmptyColl
          ELSE IF n = "catA" THEN [exists |-> TRUE, items |-> {<<1, 1>>}]
          ELSE IF n = "general_documents"
               THEN [exists |-> TRUE, items |-> {<<2, 1>>, <<2, 2>>}]
          ELSE NoColl] }

ResetStatsValues == {NoStats, [documents |-> 2, chunks |-> 3, failed |-> 1]}

\* add_embeddings_bulk of one record on the pipeline that was reset: the switch
\* of set_collection only when the name differs from the active one, then
\* self.collection.add, which raises when the collection behind the handle is gone
AddEmbeddingsBulk ==
    /\ rpc = "done"
    /\ Confirmed(confirm)
    /\ \E name \in CollNames, o \in SwitchOutcomes :
          LET switch == name # current_collection_name
              r == IF switch THEN GetOrCreateCollection(colls, name, o)
                   ELSE [raised |-> FALSE, colls |-> colls]
              active == IF switch /\ ~r.raised THEN name ELSE collection
          IN  /\ collection' = active
              /\ current_collection_name' =
                    IF switch /\ ~r.raised THEN name ELSE current_collection_name
              /\ IF ~r.raised /\ r.colls[active].exists
                 THEN /\ colls' = CollectionAdd(r.colls, active, {<<1, 1>>})
                      /\ rpc' = "added"
                 ELSE /\ colls' = r.colls
                      /\ rpc' = IF r.raised THEN "switch_raised" ELSE "add_raised"
    /\ UNCHANGED <<env, pc, cls, exc, outcome, nchunks, emb, fbIdx, succ, bulk,
                   attempts, stored, incremented, lastPut, table, stats>>
    /\ UNCHANGED <<confirm, results, rcalls, failures, cvars, qvars, svars, gvars, evars>>

\* the pipeline has ingested: the active collection is one of those that exist
InitReset ==
    /\ env = [faults |-> {}, calls |-> 0]
    /\ InitTasks
    /\ table \in ResetTables
    /\ colls \in ResetColls
    /\ collection \in ExistingColls(colls)
    /\ current_collection_name = collection
    /\ stats \in ResetStatsValues
    /\ IdleClassify /\ IdleQuery /\ IdleSplit /\ IdleProbe /\ IdleEmbed
    /\ rpc = "start"
    /\ confirm \in BOOLEAN
    /\ results = NoDecision
    /\ rcalls = <<>>
    /\ failures = {}

NextReset ==
    ResetCancel \/ ResetCategories \/ ResetVectors \/ ResetStats \/ AddEmbeddingsBulk

SpecReset == InitReset /\ [][NextReset]_vars

\* ------------------------------------------- DocumentProcessor._split_text
MaxTextLen == 4
MaxChunkSize == 3

RECURSIVE SplitTextsOfLen(_)
SplitTextsOfLen(n) ==
    IF n = 0 THEN {<<>>}
    ELSE {Append(s, c) : s \in SplitTextsOfLen(n - 1), c \in {" ", "a"}}

SplitTexts == UNION {SplitTextsOfLen(n) : n \in 0..MaxTextLen}

\* DocumentProcessor.__init__ stores the two numbers as they come; the sets
\* hold a size of zero and an overlap equal to the size
ChunkSizes == 0..MaxChunkSize
ChunkOverlaps(size) == 0..size

\* chunks.append(chunk). The state keeps the first MaxTextLen + 1 chunks, more
\* than a call that returns can build; the loop itself has no bound.
AppendChunk(cs, c) == IF Len(cs) <= MaxTextLen THEN Append(cs, c) ELSE cs

NextStartNoOverlap(start, size, overlap) == start + size
\* start += self.chunk_size - self.chunk_overlap
NextStart(start, size, overlap) == start + size - overlap

\* "if not text: return []"
SplitBegin ==
    /\ spc = "call"
    /\ spc' = IF split_text = <<>> THEN "done" ELSE "loop"
    /\ UNCHANGED <<split_text, chunk_size, chunk_overlap, split_start, chunks, passes>>
    /\ UNCHANGED <<pvars, cvars, qvars, rvars, gvars, evars>>

\* the test of the while loop and one pass through its body
SplitStep ==
    /\ spc = "loop"
    /\ IF split_start < Len(split_text)
       THEN LET end == split_start + chunk_size
                chunk == Strip(Slice(split_text, split_start,
                                     IF end < Len(split_text) THEN end
                                     ELSE Len(split_text)))
            IN  /\ chunks' = IF chunk # <<>> THEN AppendChunk(chunks, chunk) ELSE chunks
                /\ IF end >= Len(split_text)
                   THEN spc' = "done" /\ UNCHANGED split_start
                   ELSE /\ split_start' = NextStart(split_start, chunk_size, chunk_overlap)
                        /\ UNCHANGED spc
       ELSE spc' = "done" /\ UNCHANGED <<split_start, chunks>>
    /\ passes' = 1 - passes
    /\ UNCHANGED <<split_text, chunk_size, chunk_overlap>>
    /\ UNCHANGED <<pvars, cvars, qvars, rvars, gvars, evars>>

InitSplit ==
    /\ IdlePipeline
    /\ IdleClassify /\ IdleQuery /\ IdleReset /\ IdleProbe /\ IdleEmbed
    /\ split_text \in SplitTexts
    /\ chunk_size \in ChunkSizes
    /\ chunk_overlap \in ChunkOverlaps(chunk_size)
    /\ split_start = 0
    /\ chunks = <<>>
    /\ spc = "call"
    /\ passes = 0

NextSplit == SplitBegin \/ SplitStep

\* the call runs on: its loop is not suspended between passes
SpecSplit == InitSplit /\ [][NextSplit]_vars /\ WF_vars(NextSplit)

\* ------------------------------------------- _get_or_create_collection
\* the id of the record the dimension probe adds and deletes
DimensionTest == "_dimension_test"

\* a collection's dimension: the configured embedding_dimension or another one
Dimensions == {"configured", "other"}

\* the collection found under the name: none, or one of either dimension holding
\* a document's record, a probe record an interrupted earlier call left, both or
\* nothing
ProbeColls ==
    {NoColl} \cup [exists : {TRUE}, dimension : Dimensions,
                   items : SUBSET {"r1", DimensionTest}]

\* how the store calls of one run end: get_collection, the probe's add and
\* delete and delete_collection can each fail for a reason of the store's own;
\* create_collection is called at most twice; an add of an id the collection
\* already holds raises or is ignored, depending on the ChromaDB version
ProbeOutcomes ==
    [get : BOOLEAN, add : BOOLEAN, duplicate_raises : BOOLEAN, delete : BOOLEAN,
     delete_collection : BOOLEAN, create : BOOLEAN, create_again : BOOLEAN]

\* _create_collection: client.create_collection raises for a name that exists
CreateCollection(coll, ok) ==
    IF coll.exists \/ ~ok
    THEN [raised |-> TRUE, coll |-> coll]
    ELSE [raised |-> FALSE,
          coll |-> [exists |-> TRUE, dimension |-> "configured", items |-> {}]]

\* existing_collection.add of the probe record raises
ProbeAddRaises(coll, o) ==
    \/ coll.dimension # "configured"
    \/ ~o.add
    \/ DimensionTest \in coll.items /\ o.duplicate_raises

\* _get_or_create_collection with embedding_dimension set
GetOrCreateCollectionProbe(coll, o) ==
    LET outer == CreateCollection(coll, o.create)
        added == [coll EXCEPT !.items = @ \cup {DimensionTest}]
        probed == [coll EXCEPT !.items = @ \ {DimensionTest}]
        \* the "except Exception as e" of the probe, from the collection c
        recreate(c) ==
            IF ~o.delete_collection
            THEN CreateCollection(c, o.create)
            ELSE IF o.create
                 THEN CreateCollection(NoColl, TRUE)
                 ELSE CreateCollection(NoColl, o.create_again)
    IN  IF ~coll.exists \/ ~o.get THEN outer
        ELSE IF ProbeAddRaises(coll, o) THEN recreate(coll)
        ELSE IF ~o.delete THEN recreate(added)
        ELSE [raised |-> FALSE, coll |-> probed]

ProbeCall ==
    /\ gpc = "call"
    /\ LET r == GetOrCreateCollectionProbe(probe_coll, probe_env)
       IN  /\ probe_coll' = r.coll
           /\ gpc' = IF r.raised THEN "raised" ELSE "returned"
    /\ UNCHANGED <<probe_env, probe_before>>
    /\ UNCHANGED <<pvars, cvars, qvars, rvars, svars, evars>>

InitProbe ==
    /\ IdlePipeline
    /\ IdleClassify /\ IdleQuery /\ IdleReset /\ IdleSplit /\ IdleEmbed
    /\ gpc = "call"
    /\ probe_env \in ProbeOutcomes
    /\ probe_coll \in ProbeColls
    /\ probe_before = probe_coll

SpecProbe == InitProbe /\ [][ProbeCall]_vars

\* ------------------------------------------- generate_embeddings_async
MaxTexts == 3
MaxBatchSize == 2
MaxPool == 3

\* _embed_text of text k: the model's embedding of k, or the zero vector of
\* self.dimension when anything raised
EmbedTextOf(k, ok) ==
    [kind |-> EmbedText(ok), of |-> IF ok THEN k ELSE 0]

\* a to_thread task of text k, handed to the default executor
NewTask(k) == [state |-> "queued", text |-> k, kind |-> "none", of |-> 0]

\* the texts of the batch at offset b: all of them when len(texts) <= batch_size,
\* else texts[i:i + batch_size]
Batch(n, b, size) ==
    IF n <= size THEN [j \in 1..n |-> j]
    ELSE [j \in 1..(IF b + size <= n THEN size ELSE n - b) |-> b + j]

GatherAsCompleted(ts, order) ==
    [j \in 1..Len(ts) |-> [kind |-> ts[order[j]].kind, of |-> ts[order[j]].of]]
\* asyncio.gather: the results in the order of the awaitables
Gather(ts, order) ==
    [j \in 1..Len(ts) |-> [kind |-> ts[j].kind, of |-> ts[j].of]]

\* ingest_document: zip(chunks, embeddings) into the vector records; chunk i of
\* process_document carries chunk_index i - 1
VectorsData(n, embeddings) ==
    [i \in 1..(IF n <= Len(embeddings) THEN n ELSE Len(embeddings)) |->
        [chunk_index |-> i - 1, embedding |-> embeddings[i]]]

\* model calls running in threads, over all calls on the provider
InFlight ==
    Cardinality({<<c, j>> \in Tasks \X (1..MaxTexts) :
                    j <= Len(tasks[c]) /\ tasks[c][j].state = "running"})

\* the tasks of the next batch are created
EmbedSubmit(c) ==
    /\ epc[c] = "submit"
    /\ tasks' = [tasks EXCEPT ![c] =
          LET b == Batch(ntexts[c], base[c], batch_size)
          IN  [j \in 1..Len(b) |-> NewTask(b[j])]]
    /\ finished' = [finished EXCEPT ![c] = <<>>]
    /\ epc' = [epc EXCEPT ![c] = "gather"]
    /\ UNCHANGED <<batch_size, max_workers, pool, ntexts, failing, base,
                   all_embeddings, vectors_data>>
    /\ UNCHANGED <<pvars, cvars, qvars, rvars, svars, gvars>>

\* a free thread of the default executor takes a queued task
EmbedStart(c, j) ==
    /\ epc[c] = "gather"
    /\ j <= Len(tasks[c])
    /\ tasks[c][j].state = "queued"
    /\ InFlight < pool
    /\ tasks' = [tasks EXCEPT ![c][j].state = "running"]
    /\ UNCHANGED <<batch_size, max_workers, pool, epc, ntexts, failing, base,
                   finished, all_embeddings, vectors_data>>
    /\ UNCHANGED <<pvars, cvars, qvars, rvars, svars, gvars>>

\* _embed_text returns in its thread
EmbedFinish(c, j) ==
    /\ epc[c] = "gather"
    /\ j <= Len(tasks[c])
    /\ tasks[c][j].state = "running"
    /\ tasks' = [tasks EXCEPT ![c][j] =
          LET r == EmbedTextOf(@.text, @.text \notin failing[c])
          IN  [state |-> "done", text |-> @.text, kind |-> r.kind, of |-> r.of]]
    /\ finished' = [finished EXCEPT ![c] = Append(@, j)]
    /\ UNCHANGED <<batch_size, max_workers, pool, epc, ntexts, failing, base,
                   all_embeddings, vectors_data>>
    /\ UNCHANGED <<pvars, cvars, qvars, rvars, svars, gvars>>

\* "await asyncio.gather(*tasks)" resumes: the batch is appended, and the loop
\* goes on or the call returns and ingest_document builds its records
EmbedGather(c) ==
    /\ epc[c] = "gather"
    /\ \A j \in 1..Len(tasks[c]) : tasks[c][j].state = "done"
    /\ LET embeddings == all_embeddings[c] \o Gather(tasks[c], finished[c])
           last == ntexts[c] <= batch_size \/ base[c] + batch_size >= ntexts[c]
       IN  /\ all_embeddings' = [all_embeddings EXCEPT ![c] = embeddings]
           /\ base' = [base EXCEPT ![c] = IF last THEN @ ELSE @ + batch_size]
           /\ epc' = [epc EXCEPT ![c] = IF last THEN "done" ELSE "submit"]
           /\ vectors_data' = [vectors_data EXCEPT ![c] =
                 IF last THEN VectorsData(ntexts[c], embeddings) ELSE @]
    /\ tasks' = [tasks EXCEPT ![c] = <<>>]
    /\ UNCHANGED <<batch_size, max_workers, pool, ntexts, failing, finished>>
    /\ UNCHANGED <<pvars, cvars, qvars, rvars, svars, gvars>>

InitEmbed ==
    /\ IdlePipeline
    /\ IdleClassify /\ IdleQuery /\ IdleReset /\ IdleSplit /\ IdleProbe
    /\ batch_size \in 1..MaxBatchSize
    /\ max_workers \in 1..MaxPool
    /\ pool \in 1..MaxPool
    /\ epc = [c \in Tasks |-> "submit"]
    /\ ntexts \in [Tasks -> 0..MaxTexts]
    /\ failing \in [Tasks -> SUBSET (1..MaxTexts)]
    /\ \A c \in Tasks : failing[c] \subseteq 1..ntexts[c]
    /\ base = [c \in Tasks |-> 0]
    /\ tasks = [c \in Tasks |-> <<>>]
    /\ finished = [c \in Tasks |-> <<>>]
    /\ all_embeddings = [c \in Tasks |-> <<>>]
    /\ vectors_data = [c \in Tasks |-> <<>>]

NextEmbed ==
    \E c \in Tasks :
        \/ EmbedSubmit(c)
        \/ EmbedGather(c)
        \/ \E j \in 1..MaxTexts : EmbedStart(c, j) \/ EmbedFinish(c, j)

SpecEmbed == InitEmbed /\ [][NextEmbed]_vars

\* ---- SpecClassify: one _classify_with_llm call on every bounded model outcome
InitClassify ==
    /\ IdlePipeline
    /\ IdleQuery /\ IdleReset /\ IdleSplit /\ IdleProbe /\ IdleEmbed
    /\ resp \in Responses
    /\ cpc = "call"
    /\ cout = Raised

ClassifyCall ==
    /\ cpc = "call"
    /\ cout' = ClassifyWithLLM(resp)
    /\ cpc' = "done"
    /\ UNCHANGED <<resp, pvars, qvars, rvars, svars, gvars, evars>>

NextClassify == ClassifyCall

SpecClassify == InitClassify /\ [][NextClassify]_vars

\* ------------------------------------------------------------------ properties
RECURSIVE SumChunks(_)
SumChunks(S) ==
    IF S = {} THEN 0
    ELSE LET t == CHOOSE x \in S : TRUE IN nchunks[t] + SumChunks(S \ {t})

Returned == {t \in Tasks : outcome[t] = "returned_category"}

\* C1: for every category id, document_count equals the number of calls whose
\* increment the table accepted, whatever the interleaving of the calls' get,
\* conditional create and increment steps: N calls racing on one new id leave
\* one record with document_count = N.
C1_CountIntegrity ==
    \A c \in CategoryIds :
        DocumentCount(table, c) = Cardinality({t \in Tasks : incremented[t] = c})

\* all calls found no record, all tried to create it, all incremented it
C1_Witness ==
    /\ env.calls = NumDocs
    /\ \A t \in Tasks : incremented[t] = "catA" /\ cls[t].is_new
    /\ table["catA"].document_count = NumDocs

\* C2: every stored record lies in the collection its own metadata names.
C2_InsertsIntoOwnCollection ==
    \A n \in CollNames : \A rec \in colls[n].items : n = Target(rec[1])

\* C3: the session counters equal the numbers of calls that returned a
\* category, that ended in the failure path, and the chunks of the former.
C3_CountersExact ==
    /\ stats.documents = Cardinality(Returned)
    /\ stats.failed = Cardinality({t \in Tasks : outcome[t] = "failed_none"})
    /\ stats.chunks = SumChunks(Returned)

C3_Witness ==
    /\ env.calls = NumDocs
    /\ AllDone
    /\ stats.documents >= 1
    /\ stats.failed >= 1
    /\ stats.documents + stats.failed = NumDocs

\* C4: ingest_document never raises: a finished call returned the category or
\* None, and it returned the category only with at least one vector stored.
C4_NeverRaises ==
    \A t \in Tasks :
        /\ outcome[t] # "raised"
        /\ pc[t] = "done" =>
              outcome[t] \in {"returned_category", "returned_none", "failed_none"}
        /\ outcome[t] = "returned_category" => stored[t] >= 1

\* classification failed, the bulk insert failed, one individual insert failed too
C4_Witness ==
    \E t \in Tasks :
        /\ outcome[t] = "returned_category"
        /\ cls[t] = PipelineDefault
        /\ bulk[t] = "failed"
        /\ stored[t] < nchunks[t]
        /\ \E i \in 1..Len(emb[t]) : emb[t][i] = "zero"

\* C5: once all calls have finished, every document_count equals the number
\* of calls that returned that category.
C5_CountEqualsIngested ==
    AllDone =>
        \A c \in CategoryIds :
            DocumentCount(table, c) =
                Cardinality({t \in Returned : cls[t].category_id = c})

\* C6: a _create_category call for an id that has a record leaves the table as
\* it is, and the store's refusal of the put is no exception of the call; no
\* step changes a stored description, collection name or keyword list.
C6_CreateIdempotent ==
    [][ /\ \A t \in Tasks :
              (pc[t] = "create" /\ pc'[t] # "create"
                  /\ table[cls[t].category_id] # NoItem)
              => /\ table' = table
                 /\ lastPut' = "exists" => pc'[t] = "incr"
        /\ \A c \in CategoryIds :
              table[c] # NoItem =>
                 /\ table'[c] # NoItem
                 /\ \A k \in DOMAIN table[c] \ {"document_count"} :
                        k \in DOMAIN table'[c] /\ table'[c][k] = table[c][k]
                 /\ table'[c].document_count >= table[c].document_count
      ]_vars

\* a second creator, with another description, was refused
C6_Witness ==
    /\ lastPut = "exists"
    /\ \E t \in Tasks :
          /\ pc[t] = "incr"
          /\ cls[t].is_new
          /\ table[cls[t].category_id].description # cls[t].description
          /\ table[cls[t].category_id].vector_collection_name
                # cls[t].vector_collection_name

\* C7: every malformed model outcome gives the default category, with the
\* three required fields, and _classify_with_llm returns instead of raising.
WellFormed(r) ==
    /\ ~r.raises
    /\ \E i, j \in 1..Len(r.text) :
          /\ i < j
          /\ r.text[i] = "{"
          /\ r.text[j] = "}"
          /\ \A k \in 1..(i - 1) : r.text[k] # "{"
          /\ \A k \in (j + 1)..Len(r.text) : r.text[k] # "}"
          /\ \A k \in (i + 1)..(j - 1) : r.text[k] \in PairTokens
          /\ {"category_id", "vector_collection_name", "description"}
                \subseteq {r.text[k] : k \in (i + 1)..(j - 1)}

C7_MalformedGivesDefault ==
    (cpc = "done" /\ ~WellFormed(resp)) =>
        /\ ~cout.raised
        /\ {"category_id", "vector_collection_name", "description"}
              \subseteq DOMAIN cout.value
        /\ cout.value.category_id = "general_documents"
        /\ cout.value.vector_collection_name = "general_documents"

\* an object that lacks the description
C7_Witness ==
    /\ cpc = "done"
    /\ resp.text = <<"x", "{", "category_id", "vector_collection_name", "}">>
    /\ cout.value.category_id = "general_documents"

\* C8: after a failed bulk insert the call ends having attempted every record
\* once, in order; it returns the category and counts one document when an
\* individual insert succeeded, and else counts one failure and nothing more.
C8_FallbackPerItem ==
    [][ \A t \in Tasks :
            (bulk[t] = "failed" /\ pc[t] # "done" /\ pc'[t] = "done")
            => /\ attempts[t] = [i \in 1..nchunks[t] |-> i]
               /\ IF stored[t] > 0
                  THEN /\ outcome'[t] = "returned_category"
                       /\ stats'.documents = stats.documents + 1
                       /\ stats'.failed = stats.failed
                  ELSE /\ outcome'[t] = "failed_none"
                       /\ stats'.failed = stats.failed + 1
                       /\ stats'.documents = stats.documents
                       /\ stats'.chunks = stats.chunks
      ]_vars

\* the fallback went past a failed record and stored a later one
C8_Witness ==
    \E t \in Tasks :
        /\ pc[t] = "done"
        /\ bulk[t] = "failed"
        /\ outcome[t] = "returned_category"
        /\ stored[t] = 1
        /\ nchunks[t] = 2
        /\ <<t, 2>> \in colls[Target(t)].items

\* C9: a document that loads to zero chunks ends the call at once with None,
\* the counters as they were, no embedding and no insert issued.
C9_ZeroChunks ==
    /\ [][ \A t \in Tasks :
              (pc[t] = "process" /\ pc'[t] # "process"
                  /\ exc'[t] = "" /\ nchunks'[t] = 0)
              => /\ pc'[t] = "done"
                 /\ outcome'[t] = "returned_none"
                 /\ stats' = stats
         ]_vars
    /\ [](\A t \in Tasks :
              (pc[t] = "done" /\ nchunks[t] = 0 /\ outcome[t] # "failed_none")
              => /\ outcome[t] = "returned_none"
                 /\ emb[t] = <<>>
                 /\ bulk[t] = "none"
                 /\ attempts[t] = <<>>
                 /\ stored[t] = 0)

\* a zero-chunk call ended beside a call that stored its document
C9_Witness ==
    \E t, u \in Tasks :
        /\ pc[t] = "done"
        /\ outcome[t] = "returned_none"
        /\ outcome[u] = "returned_category"
        /\ stats = [documents |-> 1, chunks |-> nchunks[u], failed |-> 0]

\* C10: a call whose every embedding failed returns None through the failure
\* path and stores no vector.
C10_TotalEmbeddingFailure ==
    \A t \in Tasks :
        (/\ pc[t] = "done"
         /\ Len(emb[t]) > 0
         /\ \A i \in 1..Len(emb[t]) : emb[t][i] = "zero")
        => outcome[t] = "failed_none" /\ stored[t] = 0

\* ------------------------------------------------- properties, query path
Range(s) == {s[i] : i \in 1..Len(s)}

RouterRan == routerOut # NoDecision
Retrieved == retrievalOut # NoDecision /\ retrievalOut.status = "CONTINUE"
QueryDone == qpc = "done" /\ envelope # NoDecision

\* C11: when a category was resolved and retrieval left zero chunks, the
\* Synthesizer's answer is the fixed "No relevant documents found" with empty
\* citations, and the generative model was not called.
C11_EmptyRetrievalFixedAnswer ==
    (QueryDone /\ Retrieved /\ retrievalOut.context_data.retrieved_texts = <<>>)
        => /\ envelope.final_answer = NoRelevantDocuments
           /\ envelope.citations = <<>>
           /\ Range(calls) \cap {"summary", "generate"} = {}

\* C12: a greeting gets a CONTINUE decision to the Synthesizer with no routing
\* category and no search scope, with no classification and no vector search,
\* whatever the Category Store holds or the scan does.
C12_GreetingBypasses ==
    (RouterRan /\ Lower(Strip(query)) \in GREETINGS)
        => /\ routerOut.status = "CONTINUE"
           /\ routerOut.next_agent = "SynthesisAgent"
           /\ ~In("routing_category", routerOut.context_data)
           /\ ~In("search_scope", routerOut.context_data)
           /\ Range(calls) \cap {"classify", "get_collection", "embed", "search"} = {}

\* C13: a non-greeting query goes to the RetrievalAgent exactly when the model's
\* category id is a key of the routing map just read, with that category's
\* collection name as the search scope; otherwise the decision is a CONTINUE to
\* the Synthesizer carrying the routing map, never an error.
C13_RouterHandover ==
    (RouterRan /\ query # <<>> /\ Lower(Strip(query)) \notin GREETINGS)
        => IF In(category, routing_map)
           THEN /\ routerOut.status = "CONTINUE"
                /\ routerOut.next_agent = "RetrievalAgent"
                /\ routerOut.context_data.search_scope
                       = <<routing_map[category].collection_name>>
           ELSE /\ routerOut.status = "CONTINUE"
                /\ routerOut.next_agent = "SynthesisAgent"
                /\ routerOut.context_data.routing_map = routing_map

\* the Router's "unclassified" decision: to the Synthesizer, for a non-greeting
Unclassified ==
    /\ RouterRan
    /\ routerOut.status = "CONTINUE"
    /\ routerOut.next_agent = "SynthesisAgent"
    /\ ~IsGreeting(query)

\* C14: for an unclassifiable query the Synthesizer asks the generative model
\* for a summary and answers with empty citations; the fixed fallback text is
\* given only after that model call.
C14_UnclassifiedAsksModel ==
    (QueryDone /\ Unclassified)
        => /\ "summary" \in Range(calls)
           /\ envelope.citations = <<>>
           /\ envelope.status = "COMPLETED"

\* C15: retrieved_texts and source_metadata are exactly the results whose
\* relevance_score is at least the threshold, in the store's order (descending
\* relevance), index by index the same result.
C15_ThresholdFilter ==
    Retrieved =>
        LET texts == retrievalOut.context_data.retrieved_texts
            meta == retrievalOut.context_data.source_metadata
            keep == {i \in 1..Len(raw_results) :
                        raw_results[i].relevance_score >= 3}
        IN  /\ Len(texts) = Cardinality(keep)
            /\ Len(meta) = Len(texts)
            /\ \A k \in 1..Len(texts) :
                \E i \in keep :
                    /\ Cardinality({j \in keep : j <= i}) = k
                    /\ texts[k] = raw_results[i].text
                    /\ meta[k].chunk_id = raw_results[i].chunk_id
                    /\ meta[k].source_uri = raw_results[i].source_uri
                    /\ meta[k].score = raw_results[i].relevance_score
            /\ \A k \in 1..(Len(meta) - 1) : meta[k].score >= meta[k + 1].score

\* scores [0.9, 0.5, 0.2] came back and exactly the first two were passed on
C15_Witness ==
    /\ Retrieved
    /\ [i \in 1..Len(raw_results) |-> raw_results[i].relevance_score] = <<9, 5, 2>>
    /\ Len(retrievalOut.context_data.retrieved_texts) = 2

\* C16: with k >= 1 chunks retrieved, the envelope is COMPLETED and cites the k
\* chunks in order, each with source_uri and chunk_id, whatever the generative
\* model did.
C16_CitesEveryChunk ==
    (QueryDone /\ Retrieved /\ retrievalOut.context_data.retrieved_texts # <<>>)
        => LET meta == retrievalOut.context_data.source_metadata
           IN  /\ envelope.status = "COMPLETED"
               /\ Len(envelope.citations) = Len(retrievalOut.context_data.retrieved_texts)
               /\ \A i \in 1..Len(envelope.citations) :
                    /\ envelope.citations[i].source_uri = meta[i].source_uri
                    /\ envelope.citations[i].chunk_id = meta[i].chunk_id

\* ------------------------------------------------------ properties, reset
\* C17: reset_all_data(confirm=False) returns 'cancelled', calls neither store,
\* and leaves the Category Store, every collection and the counters as they were.
C17_UnconfirmedResetIsNoop ==
    /\ [][~confirm => UNCHANGED <<table, colls, collection, current_collection_name,
                                 stats, rcalls>>]_vars
    /\ []((rpc = "done" /\ ~confirm) => (results.status = "cancelled" /\ rcalls = <<>>))

C17_Witness ==
    /\ rpc = "done"
    /\ ~confirm
    /\ stats.documents > 0
    /\ Present(table) # {}
    /\ ExistingColls(colls) # {"documents"}

\* C18: after reset_all_data(confirm=True) the counters are zero whatever the
\* subsystems did; the status is 'success' only if both resets succeeded, is
\* 'error' only if both failed, and is 'partial_success' when exactly one failed.
C18_ResetStatus ==
    (rpc = "done" /\ confirm)
        => /\ stats = NoStats
           /\ results.status = "success" => failures = {}
           /\ results.status = "error" => failures = {"dynamodb", "vector_database"}
           /\ Cardinality(failures) = 1 => results.status = "partial_success"

\* ---------------------------------------------------- properties, chunker
\* C19: _split_text returns for every text and every configured chunk_size and
\* chunk_overlap.
C19_SplitTerminates == <>(spc = "done")

\* ------------------------------------ properties, categories and collections
\* the category records that name collection n
CategoriesOf(n) ==
    {c \in CategoryIds :
        /\ table[c] # NoItem
        /\ "vector_collection_name" \in DOMAIN table[c]
        /\ table[c].vector_collection_name = n}

\* C20: every collection of the vector store is the vector_collection_name of
\* exactly one category record, every category with ingested documents has its
\* collection, and no two category records share a collection name.
C20_CategoriesCollectionsOneToOne ==
    /\ \A n \in CollNames : colls[n].exists => Cardinality(CategoriesOf(n)) = 1
    /\ \A c \in CategoryIds :
        (table[c] # NoItem /\ table[c].document_count > 0)
            => \E n \in CollNames : c \in CategoriesOf(n) /\ colls[n].exists
    /\ \A n \in CollNames : Cardinality(CategoriesOf(n)) <= 1

\* ------------------------------------------- properties, third group
\* C21: when classify_document returns for a category that has a full record in
\* the store at that moment, the returned vector_collection_name and description
\* are the stored ones; and is_new is set only by the call whose conditional put
\* created the record.
C21_StoreAuthoritative ==
    [][\A t \in Tasks :
          /\ (/\ pc[t] = "incr" /\ pc'[t] = "process"
              /\ cls'[t] # PipelineDefault
              /\ table'[cls'[t].category_id] # NoItem
              /\ "vector_collection_name" \in DOMAIN table'[cls'[t].category_id])
                 => /\ cls'[t].vector_collection_name
                          = table'[cls'[t].category_id].vector_collection_name
                    /\ cls'[t].description = table'[cls'[t].category_id].description
          /\ (pc[t] = "create" /\ pc'[t] = "incr" /\ cls'[t].is_new)
                 => lastPut' = "created"]_vars

\* C22: an insert into the vector store that reached collection.add, on a
\* pipeline that was reset before, went into a collection that exists.
C22_InsertTargetExists ==
    rpc \in {"added", "add_raised"} => colls[collection].exists

\* C30: every record of the category table carries category_id,
\* vector_collection_name and description.
C30_RecordsComplete ==
    \A c \in CategoryIds :
        table[c] # NoItem
            => {"category_id", "vector_collection_name", "description"}
                   \subseteq DOMAIN table[c]

\* C26: after a confirmed reset, a subsystem reported as 'success' is empty:
\* no category record is left in the table, no collection in the vector store.
C26_SuccessMeansEmpty ==
    (rpc = "done" /\ confirm)
        => /\ results.dynamodb = "success" => Present(table) = {}
           /\ results.vector_database = "success" => ExistingColls(colls) = {}

\* C23: a collection of the configured dimension survives
\* _get_or_create_collection with the records it held (the probe record is not
\* among them afterwards), whatever else fails during the call.
C23_RecreatedOnlyOnMismatch ==
    (/\ gpc \in {"returned", "raised"}
     /\ probe_before.exists
     /\ probe_before.dimension = "configured")
        => /\ probe_coll.exists
           /\ probe_coll.items \ {DimensionTest} = probe_before.items \ {DimensionTest}
           /\ DimensionTest \notin probe_before.items
                  => DimensionTest \notin probe_coll.items

\* C24: a finished generate_embeddings_async call returned one vector per text,
\* in the order of the texts: the embedding of text i, or the zero vector when
\* the model call for text i failed; and record i of the document pairs chunk i
\* (chunk_index i - 1) with that vector.
C24_OneVectorPerTextInOrder ==
    \A c \in Tasks :
        epc[c] = "done"
            => /\ Len(all_embeddings[c]) = ntexts[c]
               /\ Len(vectors_data[c]) = ntexts[c]
               /\ \A i \in 1..ntexts[c] :
                    /\ all_embeddings[c][i] =
                          IF i \in failing[c] THEN [kind |-> "zero", of |-> 0]
                          ELSE [kind |-> "vec", of |-> i]
                    /\ vectors_data[c][i].chunk_index = i - 1
                    /\ vectors_data[c][i].embedding = all_embeddings[c][i]

\* one call returned for three texts in batches of two, the second text having
\* failed; another returned for two texts whose tasks finished in the reverse
\* of their order
C24_Witness ==
    \E c, d \in Tasks :
        /\ epc[c] = "done" /\ epc[d] = "done"
        /\ batch_size = 2
        /\ ntexts[c] = 3 /\ failing[c] = {2}
        /\ ntexts[d] = 2 /\ finished[d] = <<2, 1>>

\* C25: the model calls in flight on one provider never exceed its max_workers
\* nor its batch_size.
C25_InFlightBounded ==
    InFlight <= max_workers /\ InFlight <= batch_size

\* C27: the routing map the Router read holds every category record of the
\* table (a scan that raised gives the empty map and is not meant).
C27_RoutingMapComplete ==
    (RouterRan /\ DOMAIN routing_map # {})
        => DOMAIN routing_map = {i.category_id : i \in category_store}

\* the value of the first of the keys the metadata holds, else the default
FirstPresent(md, keys, default) ==
    LET present == {k \in 1..Len(keys) : In(keys[k], md)}
    IN  IF present = {} THEN default
        ELSE md[keys[CHOOSE k \in present : \A l \in present : k <= l]]

\* C28: in every search result chunk_id and source_uri are the values of the
\* first alias key the result's metadata holds, a value of 0 included, and the
\* raw result id when it holds none of them.
C28_FirstPresentAlias ==
    \A i \in 1..Len(raw_results) :
        /\ raw_results[i].chunk_id =
              FirstPresent(raw_results[i].metadata,
                           <<"chunk_id", "chunk_index", "page_number", "section_id">>,
                           RawId(i))
        /\ raw_results[i].source_uri =
              FirstPresent(raw_results[i].metadata,
                           <<"source_uri", "source", "file_path", "filename",
                             "document_id">>,
                           RawId(i))

\* ceil(a / b) for b > 0
CeilDiv(a, b) == -((-a) \div b)

\* a finished _split_text call on a text without whitespace, 0 <= overlap < size
SplitOfPlainText ==
    /\ spc = "done"
    /\ \A i \in 1..Len(split_text) : split_text[i] # " "
    /\ chunk_size >= 1
    /\ chunk_overlap < chunk_size

\* C29 (amended): such a call returns no chunk for the empty text, one chunk
\* for a non-empty text no longer than the overlap, and otherwise
\* ceil((len - overlap) / (size - overlap)) chunks; every chunk is non-empty and
\* at most size long.
C29_ChunkCount ==
    SplitOfPlainText =>
        /\ Len(chunks) =
              IF split_text = <<>> THEN 0
              ELSE IF Len(split_text) <= chunk_overlap THEN 1
              ELSE CeilDiv(Len(split_text) - chunk_overlap, chunk_size - chunk_overlap)
        /\ \A k \in 1..Len(chunks) :
              Len(chunks[k]) >= 1 /\ Len(chunks[k]) <= chunk_size

\* a one-character text split with size 3 and overlap 2 gave one chunk
C29_Witness ==
    /\ SplitOfPlainText
    /\ split_text = <<"a">> /\ chunk_size = 3 /\ chunk_overlap = 2
    /\ chunks = << <<"a">> >>

\* C29 as stated: the formula gives the number of chunks of every non-empty
\* text without whitespace, those no longer than the overlap included.
C29_ChunkCountFormulaEverywhere ==
    SplitOfPlainText =>
        /\ Len(chunks) =
              IF split_text = <<>> THEN 0
              ELSE CeilDiv(Len(split_text) - chunk_overlap, chunk_size - chunk_overlap)
        /\ \A k \in 1..Len(chunks) :
              Len(chunks[k]) >= 1 /\ Len(chunks[k]) <= chunk_size

====
